---- MODULE Spec2Model ----
(***************************************************************************)
(* The vectorizer proxy: one Express application relaying POST /vectorize  *)
(* uploads to the Vectorizer.ai API.  The repository holds two             *)
(* generations of the relay handler that differ only after the upstream    *)
(* call returns: src/server.js (content-type driven) and                   *)
(* src/unnamed/part_001 (typeof-driven).  `variant` says which one is      *)
(* running.  (src/unnamed/part_000 is the bootstrap heredoc that wrote the *)
(* first server.js; src/server.js supersedes its text.)                    *)
(*                                                                         *)
(* JavaScript values are tagged records [t, s, o]:                         *)
(*   t = "str"  a string s            t = "buf"  a Buffer whose bytes are  *)
(*   t = "obj"  a plain object o                 the UTF-8 bytes of s      *)
(*   t = "arr"  the empty array []    t = "bool" the boolean true          *)
(*   t = "null" null                                                       *)
(* Property values of upstream JSON objects are strings.  JSON numbers are *)
(* outside the modelled value domain.                                      *)
(***************************************************************************)
EXTENDS Naturals, Sequences, FiniteSets

VARIABLES
    variant,        \* which handler text runs: "server.js" or "part_001"
    pc,             \* where the request is: idle, routing, handler, awaiting,
                    \* settled, error (given to next(err)), rejected (the
                    \* handler's promise rejected, nothing sent), done
    req,            \* the inbound request: route, size of the image part, body
    upstreamCalls,  \* the FormData of every axios.post issued
    upstream,       \* what axios.post settled with
    res,            \* the outbound response: status, headers, body
    sent,           \* how many times a response was sent
    err             \* the message of the error given to the error middleware

vars == <<variant, pc, req, upstreamCalls, upstream, res, sent, err>>

\* ---- bounds of the model ----------------------------------------------
\* at most MaxParams text fields in one inbound multipart form
MaxParams == 2
\* at most MaxProps properties in one upstream JSON object
MaxProps == 2

\* ---- JavaScript values --------------------------------------------------
Undefined == "<undefined>"
NoMap == [k \in {} |-> ""]

JStr(x) == [t |-> "str", s |-> x, o |-> NoMap]
JBuf(x) == [t |-> "buf", s |-> x, o |-> NoMap]
JObj(m) == [t |-> "obj", s |-> "", o |-> m]
JArr == [t |-> "arr", s |-> "", o |-> NoMap]
JBool == [t |-> "bool", s |-> "true", o |-> NoMap]
JNull == [t |-> "null", s |-> "", o |-> NoMap]

\* `if (x)` on a string-or-undefined x
Truthy(x) == x # Undefined /\ x # ""

\* m[k] on a map of strings (req.body, response.headers)
Get(m, k) == IF k \in DOMAIN m THEN m[k] ELSE Undefined

\* v.k on a JavaScript value that is not null
Prop(v, k) == IF v.t = "obj" THEN Get(v.o, k) ELSE Undefined

\* a || b on strings-or-undefined
OrElse(a, b) == IF Truthy(a) THEN a ELSE b

\* all maps from at most n of the keys `keys` to values vals[k]
BoundedMaps(keys, vals, n) ==
    UNION { [d -> UNION {vals[k] : k \in d}] : d \in {e \in SUBSET keys : Cardinality(e) <= n} }

WellTyped(m, vals) == \A k \in DOMAIN m : m[k] \in vals[k]

\* ---- the inbound request ----------------------------------------------
Whitelist == {"mode", "processing.max_colors", "output.group_by_color",
              "output.illustrator_compatibility", "policy.retention_days"}
OtherFields == {"format"}
FieldNames == Whitelist \cup OtherFields
FieldVals == [k \in FieldNames |-> {"", "v"}]
Bodies == {m \in BoundedMaps(FieldNames, FieldVals, MaxParams) : WellTyped(m, FieldVals)}

\* multer limits.fileSize
FileSizeLimit == 10 * 1024 * 1024

\* sizes in bytes of the file part named `image`
FileSizes == {1, FileSizeLimit, FileSizeLimit + 1}

Routes == {"POST /vectorize", "GET /health", "GET /", "GET /nowhere"}

\* image says whether the form has a file part named `image`, size is its size
Requests ==
    { [route |-> "POST /vectorize", image |-> TRUE, size |-> z, body |-> b] :
          z \in FileSizes, b \in Bodies }
    \cup { [route |-> "POST /vectorize", image |-> FALSE, size |-> 0, body |-> b] : b \in Bodies }
    \cup { [route |-> r, image |-> FALSE, size |-> 0, body |-> NoMap] :
          r \in Routes \ {"POST /vectorize"} }

NoRequest == [route |-> "", image |-> FALSE, size |-> 0, body |-> NoMap]

\* ---- the outbound response --------------------------------------------
NoBody == [t |-> "none", s |-> "", o |-> NoMap]
FreshRes == [status |-> 200, headers |-> NoMap, body |-> NoBody]

\* Content-Type values that already carry a charset parameter
WithCharsetTypes == {"application/json; charset=utf-8", "image/svg+xml; charset=utf-8",
                     "text/html; charset=utf-8"}

\* express utils.setCharset(type, 'utf-8')
SetCharset(type) == IF type \in WithCharsetTypes THEN type ELSE type \o "; charset=utf-8"

\* the media type of a Content-Type value, parameters dropped
MediaType(type) ==
    CASE type \in {"application/json", "application/json; charset=utf-8"} -> "application/json"
      [] type \in {"image/svg+xml", "image/svg+xml; charset=utf-8"} -> "image/svg+xml"
      [] type \in {"text/html", "text/html; charset=utf-8"} -> "text/html"
      [] OTHER -> type

\* res.set(name, value)
SetHeader(r, name, value) ==
    [r EXCEPT !.headers = [k \in DOMAIN r.headers \cup {name} |->
                              IF k = name THEN value ELSE r.headers[k]]]

\* res.status(code)
SetStatus(r, code) == [r EXCEPT !.status = code]

\* the string branch of res.send: the Content-Type defaults to text/html and
\* gets the utf-8 charset
SendString(r, body) ==
    LET type == IF "Content-Type" \in DOMAIN r.headers THEN r.headers["Content-Type"]
                ELSE "text/html"
    IN [SetHeader(r, "Content-Type", SetCharset(type)) EXCEPT !.body = body]

\* res.json(obj): the Content-Type defaults to application/json and the JSON
\* text of obj is sent as a string
Json(r, v) ==
    LET typed == IF "Content-Type" \in DOMAIN r.headers THEN r
                 ELSE SetHeader(r, "Content-Type", "application/json")
    IN SendString(typed, v)

\* res.send(chunk): a string is sent with a charset, a Buffer as it is (the
\* Content-Type defaulting to application/octet-stream), null as an empty
\* body, and any other value through res.json
Send(r, chunk) ==
    CASE chunk.t = "str" -> SendString(r, chunk)
      [] chunk.t = "buf" ->
            [(IF "Content-Type" \in DOMAIN r.headers THEN r
              ELSE SetHeader(r, "Content-Type", "application/octet-stream"))
             EXCEPT !.body = chunk]
      [] chunk.t = "null" -> [r EXCEPT !.body = JStr("")]
      [] OTHER -> Json(r, chunk)

\* ---- the upstream reply -----------------------------------------------
PropNames == {"editor_url", "vector_token", "svg", "data", "result", "output", "message"}
PropVals == [k \in PropNames |->
    CASE k = "editor_url" -> {"https://vectorizer.ai/edit/1"}
      [] k = "vector_token" -> {"tokB"}
      [] k = "svg" -> {"", "<svg/>"}
      [] k = "data" -> {"PHBhdGgvPg=="}
      [] k = "result" -> {"<result/>"}
      [] k = "output" -> {"<output/>"}
      [] k = "message" -> {"Invalid image"}]
Objects == {m \in BoundedMaps(PropNames, PropVals, MaxProps) : WellTyped(m, PropVals)}

\* Buffer.from(s, 'base64') on the base64 texts of the model
Base64Decode(s) ==
    CASE s = "PHBhdGgvPg==" -> "<path/>"
      [] s = "PHN2Zy8+" -> "<svg/>"
      [] OTHER -> ""

\* what axios leaves in response.data when no responseType is set: the body
\* text, or the value JSON.parse gives for it
Datas == {JStr("<svg/>"), JStr(""), JNull, JBool, JArr} \cup {JObj(m) : m \in Objects}
ErrorDatas == {JStr("Invalid image"), JStr(""), JNull}
              \cup {JObj(m) : m \in {n \in Objects : DOMAIN n \subseteq {"message"}}}

ContentTypes == {"application/json; charset=utf-8", "image/svg+xml"}
TokenHeaders == {"x-image-token", "X-Image-Token", "X-IMAGE-TOKEN"}
HeaderVals == [k \in {"content-type"} \cup TokenHeaders |->
                  IF k = "content-type" THEN ContentTypes ELSE {"tokH"}]
\* at most one spelling of the token header in one reply
UpstreamHeaders ==
    {h \in BoundedMaps({"content-type"} \cup TokenHeaders, HeaderVals, 2) :
        /\ WellTyped(h, HeaderVals)
        /\ Cardinality(DOMAIN h \cap TokenHeaders) <= 1}

ErrorStatuses == {400, 503}

Replies ==
    { [kind |-> "response", status |-> 200, headers |-> h, data |-> d] :
          h \in UpstreamHeaders, d \in Datas }
    \cup { [kind |-> "error_response", status |-> c, headers |-> NoMap, data |-> d] :
          c \in ErrorStatuses, d \in ErrorDatas }
    \cup { [kind |-> "no_response", status |-> 0, headers |-> NoMap, data |-> JNull] }

NoReply == [kind |-> "", status |-> 0, headers |-> NoMap, data |-> JNull]

\* ---- the relay handler, up to the upstream call ----------------------
\* a handler that takes any multipart field for the upload
HasFileOrField(r) == r.image \/ DOMAIN r.body # {}

\* !req.file after upload.single('image') let the request through
HasFile(r) == r.image

\* the 400 sent when req.file is missing
MissingImage(r) == Json(SetStatus(r, 400), JObj([error |-> "No image file provided"]))

\* one part of the outbound FormData
Part(name, value) == [name |-> name, value |-> value]

\* a translator that tests the key's presence instead of its value
AppendParamIfPresent(form, body, key) ==
    IF key \in DOMAIN body THEN Append(form, [name |-> key, value |-> body[key]]) ELSE form

\* if (req.body[key]) formData.append(key, req.body[key])
AppendParam(form, body, key) ==
    IF Truthy(Get(body, key)) THEN Append(form, Part(key, body[key])) ELSE form

\* the FormData sent upstream: the image, then the truthy whitelisted fields
BuildForm(r) ==
    LET f0 == <<Part("image", "<req.file.buffer>")>>
        f1 == AppendParam(f0, r.body, "mode")
        f2 == AppendParam(f1, r.body, "processing.max_colors")
        f3 == AppendParam(f2, r.body, "output.group_by_color")
        f4 == AppendParam(f3, r.body, "output.illustrator_compatibility")
    IN AppendParam(f4, r.body, "policy.retention_days")

\* ---- the relay handler, after the upstream call ----------------------
\* What the code after `await` did: it sent `res` (threw = FALSE), or threw
\* an error with message `msg` that nothing in the handler caught.
Sent(r) == [threw |-> FALSE, msg |-> "", res |-> r]
Thrown(m) == [threw |-> TRUE, msg |-> m, res |-> FreshRes]

\* String.prototype.includes(part) on the Content-Type values of the model
Includes(type, part) ==
    part = "application/json" /\ type \in {"application/json", "application/json; charset=utf-8"}

\* value.toString() for a value that is not null
ToString(v) ==
    CASE v.t \in {"str", "buf", "bool"} -> v.s
      [] v.t = "arr" -> ""
      [] OTHER -> "[object Object]"

\* AxiosError.message for a reply
AxiosMessage(u) ==
    CASE u.kind = "no_response" -> "socket hang up"
      [] u.status = 400 -> "Request failed with status code 400"
      [] OTHER -> "Request failed with status code 503"

\* the catch block when the caught error is not an AxiosError with a response
GeneralError(r, message) ==
    Json(SetStatus(r, 500), JObj([error |-> "Internal server error", message |-> message]))

\* the catch block for an error thrown by axios.post
CatchAxios(r, u) ==
    IF u.kind = "error_response"
    THEN IF u.data.t = "null"
         THEN Thrown("Cannot read properties of null (reading 'toString')")
         ELSE Sent(Json(SetStatus(r, u.status),
                        JObj([error |-> "Vectorizer.ai API error",
                              message |-> OrElse(ToString(u.data), AxiosMessage(u)),
                              status |-> u.status])))
    ELSE Sent(GeneralError(r, AxiosMessage(u)))

\* the token header forwarded by src/server.js
ServerToken(h) ==
    OrElse(Get(h, "x-image-token"), OrElse(Get(h, "X-Image-Token"), Get(h, "X-IMAGE-TOKEN")))

\* the token header forwarded by part_001 on a non-object reply
Part001Token(h) == OrElse(Get(h, "x-image-token"), Get(h, "X-Image-Token"))

\* res.set(name, value) under `if (value)`
SetIf(r, name, value) == IF Truthy(value) THEN SetHeader(r, name, value) ELSE r

\* src/server.js: the body chosen from a JSON reply
ServerImageData(d) ==
    IF Truthy(Prop(d, "data")) THEN JBuf(Base64Decode(Prop(d, "data")))
    ELSE IF Truthy(Prop(d, "svg")) THEN JStr(Prop(d, "svg"))
    ELSE d

\* src/server.js: try-block after the upstream call returned `u`
ServerSuccess(r, u) ==
    LET type == Get(u.headers, "content-type")
        isJson == Truthy(type) /\ Includes(type, "application/json")
        d == u.data
        r1 == SetHeader(SetHeader(r, "Content-Type", OrElse(type, "image/svg+xml")),
                        "Cache-Control", "no-store")
        r2 == SetIf(r1, "X-Image-Token", ServerToken(u.headers))
    IN IF isJson
       THEN IF d.t = "null"
            THEN Sent(GeneralError(r, "Cannot read properties of null (reading 'editor_url')"))
            ELSE Sent(Send(SetIf(r2, "X-Editor-URL", Prop(d, "editor_url")), ServerImageData(d)))
       ELSE IF d.t = "str" THEN Sent(Send(r2, JBuf(d.s)))
            ELSE IF d.t = "arr" THEN Sent(Send(r2, JBuf("")))
            ELSE Sent(GeneralError(r, "The first argument must be of type string or an instance of Buffer"))

\* part_001: the body chosen from an object reply
Part001SvgData(d) ==
    IF Truthy(Prop(d, "svg")) THEN JStr(Prop(d, "svg"))
    ELSE IF Truthy(Prop(d, "data")) THEN JBuf(Base64Decode(Prop(d, "data")))
    ELSE IF Truthy(Prop(d, "result")) THEN JStr(Prop(d, "result"))
    ELSE IF Truthy(Prop(d, "output")) THEN JStr(Prop(d, "output"))
    ELSE d

\* part_001: try-block after the upstream call returned `u`
Part001Success(r, u) ==
    LET d == u.data
    IN IF d.t \in {"obj", "arr"}
       THEN LET r1 == SetIf(r, "X-Editor-URL", Prop(d, "editor_url"))
                r2 == SetIf(r1, "X-Image-Token", Prop(d, "vector_token"))
                r3 == SetHeader(SetHeader(r2, "Content-Type", "image/svg+xml"),
                                "Cache-Control", "no-store")
            IN Sent(Send(r3, Part001SvgData(d)))
       ELSE LET r1 == SetIf(r, "X-Image-Token", Part001Token(u.headers))
                r2 == SetHeader(SetHeader(r1, "Content-Type",
                                          OrElse(Get(u.headers, "content-type"), "image/svg+xml")),
                                "Cache-Control", "no-store")
            IN Sent(Send(r2, d))

\* the rest of the handler once axios.post settled with `u`
Resume(v, r, u) ==
    IF u.kind = "response"
    THEN IF v = "server.js" THEN ServerSuccess(r, u) ELSE Part001Success(r, u)
    ELSE CatchAxios(r, u)

\* ---- the application ---------------------------------------------------
Variants == {"server.js", "part_001"}

Init ==
    /\ variant \in Variants
    /\ pc = "idle"
    /\ req = NoRequest
    /\ upstreamCalls = <<>>
    /\ upstream = NoReply
    /\ res = FreshRes
    /\ sent = 0
    /\ err = ""

\* a request arrives and is routed
Receive ==
    /\ pc = "idle"
    /\ \E r \in Requests : req' = r
    /\ pc' = "routing"
    /\ UNCHANGED <<variant, upstreamCalls, upstream, res, sent, err>>

\* app.get('/health')
Health ==
    /\ pc = "routing" /\ req.route = "GET /health"
    /\ res' = Json(res, JObj([status |-> "ok", service |-> "vectorizer-proxy",
                              timestamp |-> "<now>"]))
    /\ sent' = sent + 1
    /\ pc' = "done"
    /\ UNCHANGED <<variant, req, upstreamCalls, upstream, err>>

\* app.get('/')
Root ==
    /\ pc = "routing" /\ req.route = "GET /"
    /\ res' = Json(res, JObj([message |-> "Vectorizer Proxy is running",
                              endpoints |-> "<endpoints>"]))
    /\ sent' = sent + 1
    /\ pc' = "done"
    /\ UNCHANGED <<variant, req, upstreamCalls, upstream, err>>

\* the 404 handler
NotFound ==
    /\ pc = "routing" /\ req.route \notin {"GET /health", "GET /", "POST /vectorize"}
    /\ res' = Json(SetStatus(res, 404),
                   JObj([error |-> "Not found", message |-> "Cannot " \o req.route]))
    /\ sent' = sent + 1
    /\ pc' = "done"
    /\ UNCHANGED <<variant, req, upstreamCalls, upstream, err>>

\* upload.single('image') with limits.fileSize: a larger file is refused with
\* an error handed to next(err); otherwise the handler runs.  A file of
\* exactly the limit passes or is refused, by the busboy release installed.
Upload ==
    /\ pc = "routing" /\ req.route = "POST /vectorize"
    /\ \/ /\ req.image /\ req.size >= FileSizeLimit
          /\ pc' = "error" /\ err' = "File too large"
       \/ /\ ~req.image \/ req.size <= FileSizeLimit
          /\ pc' = "handler" /\ err' = err
    /\ UNCHANGED <<variant, req, upstreamCalls, upstream, res, sent>>

\* the handler up to `await axios.post(...)`
Vectorize ==
    /\ pc = "handler"
    /\ IF ~HasFile(req)
       THEN /\ res' = MissingImage(res)
            /\ sent' = sent + 1
            /\ pc' = "done"
            /\ UNCHANGED upstreamCalls
       ELSE /\ upstreamCalls' = Append(upstreamCalls, BuildForm(req))
            /\ pc' = "awaiting"
            /\ UNCHANGED <<res, sent>>
    /\ UNCHANGED <<variant, req, upstream, err>>

\* the upstream service answers, or the connection fails
UpstreamSettles ==
    /\ pc = "awaiting"
    /\ \E u \in Replies : upstream' = u
    /\ pc' = "settled"
    /\ UNCHANGED <<variant, req, upstreamCalls, res, sent, err>>

\* the handler from the await to its end.  An error thrown inside the catch
\* block rejects the handler's promise: Express 4 drops the rejection and
\* nothing is ever sent, Express 5 hands it to the error middleware.
VectorizeResume ==
    /\ pc = "settled"
    /\ LET out == Resume(variant, res, upstream)
       IN IF out.threw
          THEN /\ pc' \in {"rejected", "error"}
               /\ err' = out.msg
               /\ UNCHANGED <<res, sent>>
          ELSE /\ res' = out.res
               /\ sent' = sent + 1
               /\ pc' = "done"
               /\ UNCHANGED err
    /\ UNCHANGED <<variant, req, upstreamCalls, upstream>>

\* the error-handling middleware
ErrorMiddleware ==
    /\ pc = "error"
    /\ res' = GeneralError(res, err)
    /\ sent' = sent + 1
    /\ pc' = "done"
    /\ UNCHANGED <<variant, req, upstreamCalls, upstream, err>>

Next ==
    \/ Receive
    \/ Health
    \/ Root
    \/ NotFound
    \/ Upload
    \/ Vectorize
    \/ UpstreamSettles
    \/ VectorizeResume
    \/ ErrorMiddleware

Spec == Init /\ [][Next]_vars

\* ---- the claims ---------------------------------------------------------
IsVectorize == req.route = "POST /vectorize"
Done == pc = "done"
IsJsonBody(b) == b.t = "obj"
\* the reply is a JSON envelope by both tests the handlers use: a JSON
\* content-type and a decoded object
IsEnvelope(u) ==
    /\ u.kind = "response"
    /\ u.data.t = "obj"
    /\ Includes(Get(u.headers, "content-type"), "application/json")
\* the names of the parts of an outbound form
PartNames(form) == {form[j].name : j \in DOMAIN form}
\* the values the outbound form carries under `name`
PartValues(form, name) == {form[j].value : j \in {i \in DOMAIN form : form[i].name = name}}
\* hay contains needle, for the whole strings of the model: none of them is
\* a proper part of another
Contains(hay, needle) == hay = needle
\* the message text an upstream error body carries
UpstreamMessage(d) == IF d.t = "obj" THEN Get(d.o, "message") ELSE d.s
CarriesMessage(d) == d.t \in {"str", "obj"} /\ Truthy(UpstreamMessage(d))

C2_PresentKeysForwarded ==
    \A i \in DOMAIN upstreamCalls :
        /\ \A k \in Whitelist :
              PartValues(upstreamCalls[i], k) =
                  (IF k \in DOMAIN req.body THEN {req.body[k]} ELSE {})
        /\ PartNames(upstreamCalls[i]) \subseteq Whitelist \cup {"image"}

\* C2 amended: every whitelisted key present with a non-empty value is in
\* the outbound form exactly once with that value; a key that is absent or
\* empty is not; nothing else but the image, which comes first, is forwarded.
C2_NonEmptyKeysForwarded ==
    \A i \in DOMAIN upstreamCalls :
        LET form == upstreamCalls[i]
        IN /\ \A k \in Whitelist :
                 /\ PartValues(form, k) =
                       (IF k \in DOMAIN req.body /\ req.body[k] # "" THEN {req.body[k]} ELSE {})
                 /\ Cardinality({j \in DOMAIN form : form[j].name = k}) <= 1
           /\ PartNames(form) \subseteq Whitelist \cup {"image"}
           /\ form[1].name = "image"
           /\ Cardinality({j \in DOMAIN form : form[j].name = "image"}) = 1

\* C2 witness: an outbound form was built from a form that had one
\* whitelisted key with a value and another field that is empty or unknown.
C2_Witness ==
    /\ Len(upstreamCalls) = 1
    /\ \E k \in Whitelist : Get(req.body, k) = "v" /\ PartValues(upstreamCalls[1], k) = {"v"}
    /\ \E k \in DOMAIN req.body : k \notin Whitelist \/ req.body[k] = ""

\* C3: an upstream error status with an error body is relayed with the same
\* status and a JSON body {error, message, status} whose status is the
\* upstream's and whose message contains the upstream's error message; no
\* upstream response at all gives 500.
C3_UpstreamErrorRelayed ==
    Done =>
        /\ (upstream.kind = "error_response" /\ CarriesMessage(upstream.data)) =>
              /\ res.status = upstream.status
              /\ IsJsonBody(res.body)
              /\ DOMAIN res.body.o = {"error", "message", "status"}
              /\ res.body.o["status"] = upstream.status
              /\ Contains(res.body.o["message"], UpstreamMessage(upstream.data))
        /\ upstream.kind = "no_response" => res.status = 500

\* C4: the editor_url of a JSON envelope is sent verbatim as X-Editor-URL,
\* and the Content-Type sent is image/svg+xml whatever the upstream declared.
C4_EditorUrlAndSvgType ==
    (Done /\ IsEnvelope(upstream)) =>
        /\ "editor_url" \in DOMAIN upstream.data.o =>
              Get(res.headers, "X-Editor-URL") = upstream.data.o["editor_url"]
        /\ MediaType(Get(res.headers, "Content-Type")) = "image/svg+xml"

\* C5: an image over the 10 MiB limit is answered with a 4xx status and no
\* upstream call is attempted.
C5_OversizeIsClientError ==
    (IsVectorize /\ req.size > FileSizeLimit) =>
        /\ upstreamCalls = <<>>
        /\ Done => (res.status >= 400 /\ res.status <= 499)

\* C6: every upstream success, whatever the shape of its body, ends in a
\* success response that carries a body; the handler itself answers with an
\* error only for a missing image or an upstream failure.
C6_SuccessAlwaysNormalized ==
    /\ (upstream.kind = "response" /\ pc \in {"done", "rejected", "error"}) =>
          /\ Done
          /\ res.status = 200
          /\ res.body.t # "none"
    /\ (Done /\ IsVectorize /\ err = "" /\ res.status >= 400) =>
          (~req.image \/ upstream.kind \in {"error_response", "no_response"})

\* C7: every error response has a JSON body with an `error` and a `message`
\* field, and a relayed upstream error has `status` too.
C7_ErrorBodiesHaveErrorAndMessage ==
    (Done /\ res.status >= 400) =>
        /\ IsJsonBody(res.body)
        /\ {"error", "message"} \subseteq DOMAIN res.body.o
        /\ res.body.o["error"] = "Vectorizer.ai API error" => "status" \in DOMAIN res.body.o

\* C8: the token field of a JSON envelope is sent as X-Image-Token; with no
\* token anywhere in the reply no X-Image-Token is set and the response is
\* still a success.
C8_EnvelopeTokenForwarded ==
    (Done /\ IsEnvelope(upstream)) =>
        /\ "vector_token" \in DOMAIN upstream.data.o =>
              Get(res.headers, "X-Image-Token") = upstream.data.o["vector_token"]
        /\ ("vector_token" \notin DOMAIN upstream.data.o
            /\ DOMAIN upstream.headers \cap TokenHeaders = {}) =>
              ("X-Image-Token" \notin DOMAIN res.headers /\ res.status = 200)

\* C9: the body sent for a JSON envelope is its svg field if it has one,
\* otherwise its data field decoded from base64, otherwise the whole JSON
\* value; with both svg and data, svg is sent.
C9_PayloadPrecedence ==
    (Done /\ IsEnvelope(upstream)) =>
        LET d == upstream.data
        IN res.body =
              (IF Truthy(Prop(d, "svg")) THEN JStr(d.o["svg"])
               ELSE IF Truthy(Prop(d, "data")) THEN JBuf(Base64Decode(d.o["data"]))
               ELSE d)

\* C10: a request makes at most one upstream call, none without an image,
\* and once that call has settled and the handler has run to its end exactly
\* one response has been sent.
C10_OneCallOneResponse ==
    /\ Len(upstreamCalls) <= 1
    /\ sent <= 1
    /\ (IsVectorize /\ ~req.image) => upstreamCalls = <<>>
    /\ (upstream.kind # "" /\ pc \in {"done", "rejected"}) => sent = 1

====
